---- MODULE Spec2Model ----
(***************************************************************************)
(* The Postgres storage layer of uasocial (internal/storage/storage.go):   *)
(* the help and subscription tables, the statements that write them and    *)
(* the queries that read them, with SQL's three-valued treatment of NULL.  *)
(***************************************************************************)
EXTENDS Integers, FiniteSets, Sequences, TLC

(* ------------------------------ bounds --------------------------------- *)

\* Rows the help table may hold.
MaxHelps == 1

\* Subscriptions ever inserted.
MaxSubs == 2

\* Last instant of the clock read by time.Now().
MaxTime == 2

(* --------------------------- reference data ---------------------------- *)

\* SQL NULL (a nullable column, a nil *time.Time).
NULL == -1

\* The ids of the users registered from the start (help.creator_id and
\* subscription.creator_id refer to them).
AppUser == {"u1", "u2"}

\* Rows of category.
Category == {"Food", "Meds"}

\* Rows of locality, indexed by id: one state with two districts; the first
\* district holds a village, an urban settlement and two cities, the second
\* a single village.
Locality ==
    << [type |-> "COUNTRY",  parent_id |-> NULL, public_name_ua |-> "Ukraine"],
       [type |-> "STATE",    parent_id |-> 1,    public_name_ua |-> "Kyivska"],
       [type |-> "DISTRICT", parent_id |-> 2,    public_name_ua |-> "Buchanskyi"],
       [type |-> "DISTRICT", parent_id |-> 2,    public_name_ua |-> "Boryspilskyi"],
       [type |-> "VILLAGE",  parent_id |-> 3,    public_name_ua |-> "Kyievo"],
       [type |-> "URBAN",    parent_id |-> 3,    public_name_ua |-> "Vorzel"],
       [type |-> "CITY",     parent_id |-> 3,    public_name_ua |-> "Bucha"],
       [type |-> "CITY",     parent_id |-> 3,    public_name_ua |-> "Irpin"],
       [type |-> "VILLAGE",  parent_id |-> 4,    public_name_ua |-> "Hora"] >>

LocalityIDs == DOMAIN Locality

\* The types the left join of the two posting queries rolls up.
RollupTypes == {"VILLAGE", "URBAN", "SETTLEMENT"}

\* Description texts of a posting.
Descriptions == {"d1"}

(* ------------------------------- state --------------------------------- *)

VARIABLES
    help,          \* the help table: a set of rows
    subscription,  \* the subscription table: a set of rows
    subSeq,        \* subscriptions inserted so far (uuid.New() never repeats)
    now,           \* the clock read by time.Now()
    app_user,      \* the app_user table: a set of rows
    text,          \* the locality name a user typed
    regions,       \* what SelectLocalityRegions returned for it
    updates,       \* the channel Service.Subscriptions(): batches in flight
    pc,            \* where listenSubscriptionUpdates stands
    batch,         \* the records of the received batch still to send
    ctxDone,       \* the context of listenSubscriptionUpdates is cancelled
    upserts,       \* the calls of UpsertUser that did not reach the database yet
    uidSeq,        \* users' ids taken from uuid.New() so far
    reaper,        \* the expiry scan in progress: its cutoff, the postings it listed
    dialog,        \* the dialog of one chat: next handler, volunteer's choices
    ret            \* the last store call: the driver's error and the error returned

vars == <<help, subscription, subSeq, now, app_user, text, regions,
          updates, pc, batch, ctxDone, upserts, uidSeq, reaper, dialog, ret>>

\* What the statements on help and subscription have nothing to do with.
outside == <<text, regions, updates, pc, batch, ctxDone, upserts, uidSeq, reaper, dialog,
             ret>>

HelpIDs == 1..(MaxHelps + 1)
SubIDs == 1..(MaxSubs + 1)
Times == 0..MaxTime
\* Cutoffs handed to SelectExpiredHelps: any instant, one past the clock too.
Cutoffs == 0..(MaxTime + 1)

(* --------------------------- SQL comparison ---------------------------- *)

\* a = b in a join or where clause: not true when either side is NULL.
SqlEq(a, b) == a # NULL /\ b # NULL /\ a = b

\* a < b in a where clause: not true when either side is NULL.
SqlLt(a, b) == a # NULL /\ b # NULL /\ a < b

(* ------------------------------ errors --------------------------------- *)

\* ErrFromCode: the storage error for a driver error.
ErrFromCode(pqerr) ==
    CASE pqerr = "nil" -> "nil"
      [] pqerr = "sql.ErrNoRows" -> "ErrNotFound"
      [] pqerr = "pq.23505" -> "ErrUniqueViolation"
      [] OTHER -> pqerr

(* --------------------------- help: writes ------------------------------ *)

\* uuid.New() in InsertHelp: an id no row holds (rows are never removed).
NewHelpID == Cardinality(help) + 1

\* InsertHelp: one row, created now, never renewed, not deleted.  The
\* statement takes the category array as it comes, empty or not.
InsertHelp(creator, cats, loc, desc) ==
    /\ Cardinality(help) < MaxHelps
    /\ help' = help \cup
         {[id |-> NewHelpID, creator_id |-> creator, category_ids |-> cats,
           locality_id |-> loc, description |-> desc,
           created_at |-> now, updated_at |-> NULL, deleted_at |-> NULL]}
    /\ UNCHANGED <<subscription, subSeq, now, app_user, outside>>

\* The error InsertHelp returns next to the new id.
InsertHelpErr(creator, cats, loc, desc) == ErrFromCode("nil")

\* The update with a check that the posting was never renewed.
DeleteHelpRowsUnrenewed(id, t) ==
    {IF h.id = id /\ h.updated_at = NULL THEN [h EXCEPT !.deleted_at = t] ELSE h :
        h \in help}

\* deleteHelpSQL: update help set deleted_at = $2 where id = $1.
DeleteHelpRows(id, t) ==
    {IF h.id = id THEN [h EXCEPT !.deleted_at = t] ELSE h : h \in help}

\* DeleteHelp: the update, with time.Now(); no row matched is no error.
DeleteHelp(id) ==
    /\ help' = DeleteHelpRows(id, now)
    /\ UNCHANGED <<subscription, subSeq, now, app_user, outside>>

\* An error that tells when the update matched no row.
DeleteHelpErrNoRows(id) ==
    IF \E h \in help : h.id = id THEN ErrFromCode("nil") ELSE ErrFromCode("sql.ErrNoRows")

\* The error DeleteHelp returns.
DeleteHelpErr(id) == ErrFromCode("nil")

\* A renewal that brings a deleted posting back.
KeepHelpRowsRevive(id, t) ==
    {IF h.id = id THEN [h EXCEPT !.updated_at = t, !.deleted_at = NULL] ELSE h :
        h \in help}

\* keepHelpSQL: update help set updated_at = $2 where id = $1.
KeepHelpRows(id, t) ==
    {IF h.id = id THEN [h EXCEPT !.updated_at = t] ELSE h : h \in help}

\* KeepHelp: the update, with time.Now().
KeepHelp(id) ==
    /\ help' = KeepHelpRows(id, now)
    /\ UNCHANGED <<subscription, subSeq, now, app_user, outside>>

\* The error KeepHelp returns.
KeepHelpErr(id) == ErrFromCode("nil")

(* ------------------------ subscription: writes ------------------------- *)

\* InsertSubscription: one row with a fresh id.
InsertSubscription(creator, cat, loc) ==
    /\ subSeq < MaxSubs
    /\ subSeq' = subSeq + 1
    /\ subscription' = subscription \cup
         {[id |-> subSeq + 1, creator_id |-> creator, category_id |-> cat,
           locality_id |-> loc, created_at |-> now]}
    /\ UNCHANGED <<help, now, app_user, outside>>

\* deleteSubscriptionSQL: delete from subscription where id = $1.
DeleteSubscription(id) ==
    /\ subscription' = {s \in subscription : s.id # id}
    /\ UNCHANGED <<help, subSeq, now, app_user, outside>>

\* The error DeleteSubscription returns.
DeleteSubscriptionErr(id) == ErrFromCode("nil")

(* ------------------------------ clock ---------------------------------- *)

\* Time passes between two calls.
Tick ==
    /\ now < MaxTime
    /\ now' = now + 1
    /\ UNCHANGED <<help, subscription, subSeq, app_user, outside>>

(* ---------------------------- help: reads ------------------------------ *)

\* The inner joins every posting query makes: the creator's app_user row, the
\* locality row, and at least one category row among category_ids.
HelpJoins(h) ==
    /\ \E u \in app_user : u.id = h.creator_id
    /\ h.locality_id \in LocalityIDs
    /\ \E c \in Category : c \in h.category_ids

\* HelpValue reading the name of the parent locality in place of the
\* posting's own.
HelpValueParentName(h) ==
    [id |-> h.id, creator_id |-> h.creator_id,
     categories |-> {c \in Category : c \in h.category_ids},
     loc_public_name_ua |-> Locality[Locality[h.locality_id].parent_id].public_name_ua,
     description |-> h.description, created_at |-> h.created_at,
     updated_at |-> h.updated_at, deleted_at |-> h.deleted_at]

\* A scanned Help: the categories are the category rows the join found
\* (json_agg), the locality name is that of the posting's locality.
HelpValue(h) ==
    [id |-> h.id, creator_id |-> h.creator_id,
     categories |-> {c \in Category : c \in h.category_ids},
     loc_public_name_ua |-> Locality[h.locality_id].public_name_ua,
     description |-> h.description, created_at |-> h.created_at,
     updated_at |-> h.updated_at, deleted_at |-> h.deleted_at]

\* new(Help): the value SelectHelpByID returns next to an error (NULL stands
\* for the zero time too).
ZeroHelp ==
    [id |-> 0, creator_id |-> "", categories |-> {}, loc_public_name_ua |-> "",
     description |-> "", created_at |-> NULL, updated_at |-> NULL,
     deleted_at |-> NULL]

\* selectHelpByIDSQL: where h.id = $1, and nothing about deleted_at.
HelpByIDWhere(h, id) == h.id = id

\* SelectHelpByID: GetContext scans the first row, sql.ErrNoRows when none.
SelectHelpByID(id) ==
    LET rows == {HelpValue(h) : h \in {g \in help : HelpJoins(g) /\ HelpByIDWhere(g, id)}}
    IN  IF rows = {}
        THEN [help |-> ZeroHelp, err |-> ErrFromCode("sql.ErrNoRows")]
        ELSE [help |-> CHOOSE r \in rows : TRUE, err |-> ErrFromCode("nil")]

\* The left join without its condition on l.type: every type rolls up.
RegLocalitiesAnyType(lid) ==
    LET reg == {r \in LocalityIDs :
                  SqlEq(Locality[lid].parent_id, Locality[r].parent_id)}
    IN  IF reg = {} THEN {lid} ELSE reg

\* The left join on reg_l of the two rollup queries, as the ids
\* coalesce(reg_l.id, l.id) takes for locality l: every locality with l's
\* parent when l's type rolls up (l itself among them), otherwise l alone.
\* reg_l's own type is not looked at.
RegLocalities(lid) ==
    LET reg == {r \in LocalityIDs :
                  /\ SqlEq(Locality[lid].parent_id, Locality[r].parent_id)
                  /\ Locality[lid].type \in RollupTypes}
    IN  IF reg = {} THEN {lid} ELSE reg

\* The query without the left join: postings at the locality itself only.
SelectHelpsAtLocalityCategory(lid, cid) ==
    {HelpValue(h) : h \in {g \in help :
        /\ g.locality_id = lid
        /\ HelpJoins(g)
        /\ cid \in g.category_ids
        /\ g.deleted_at = NULL}}

\* selectHelpsByLocalityCategorySQL.
SelectHelpsByLocalityCategory(lid, cid) ==
    {HelpValue(h) : h \in {g \in help :
        /\ lid \in LocalityIDs
        /\ g.locality_id \in RegLocalities(lid)
        /\ HelpJoins(g)
        /\ cid \in g.category_ids
        /\ g.deleted_at = NULL}}

\* selectHelpsByUserSQL.
SelectHelpsByUser(uid) ==
    {HelpValue(h) : h \in {g \in help :
        /\ HelpJoins(g)
        /\ g.creator_id = uid
        /\ g.deleted_at = NULL}}

\* The where clause without "and h.deleted_at is null".
ExpiredWhereDeletedToo(h, t) ==
    \/ (SqlLt(h.created_at, t) /\ h.updated_at = NULL)
    \/ SqlLt(h.updated_at, t)

\* The where clause judging a renewed posting by created_at still.
ExpiredWhereCreatedFirst(h, t) ==
    /\ \/ SqlLt(h.created_at, t)
       \/ SqlLt(h.updated_at, t)
    /\ h.deleted_at = NULL

\* The where clause of selectExpiredHelps.
ExpiredWhere(h, t) ==
    /\ \/ (SqlLt(h.created_at, t) /\ h.updated_at = NULL)
       \/ SqlLt(h.updated_at, t)
    /\ h.deleted_at = NULL

\* SelectExpiredHelps.
SelectExpiredHelps(t) ==
    {HelpValue(h) : h \in {g \in help : HelpJoins(g) /\ ExpiredWhere(g, t)}}

\* The count without `and deleted_at is null`.
SelectHelpsCountByUserAll(uid) ==
    Cardinality({h \in help : h.creator_id = uid})

\* selectHelpsCountByUserSQL: counts rows of help alone, no join.
SelectHelpsCountByUser(uid) ==
    Cardinality({h \in help : h.creator_id = uid /\ h.deleted_at = NULL})

\* selectHelpsBySubscriptionSQL.
SelectHelpsBySubscription(sid) ==
    {HelpValue(h) : h \in {g \in help :
        \E s \in subscription :
            /\ s.id = sid
            /\ s.locality_id \in LocalityIDs
            /\ g.locality_id \in RegLocalities(s.locality_id)
            /\ s.category_id \in g.category_ids
            /\ HelpJoins(g)
            /\ g.deleted_at = NULL}}

(* ------------------------ subscription: reads -------------------------- *)

\* A scanned SubscriptionValue.
SubscriptionValue(s) ==
    [id |-> s.id, creator_id |-> s.creator_id, category_id |-> s.category_id,
     public_name_ua |-> Locality[s.locality_id].public_name_ua,
     created_at |-> s.created_at]

\* The inner joins of the subscription queries.
SubscriptionJoins(s) ==
    /\ \E u \in app_user : u.id = s.creator_id
    /\ s.category_id \in Category
    /\ s.locality_id \in LocalityIDs

\* A plain select: every row is kept.
SelectAllRows(rows) == {rows}

\* select distinct on (s.creator_id), without order by: of the rows of each
\* creator one is kept, which one is not determined.  The results the
\* statement can give for these rows.
DistinctOnCreator(rows) ==
    {res \in SUBSET rows :
        \A r \in rows : Cardinality({x \in res : x.creator_id = r.creator_id}) = 1}

\* The where clause of selectSubscriptionsByLocalityCategoriesSQL: the
\* locality itself, no rollup.
SubscriptionMatches(s, l, cids) == s.locality_id = l /\ s.category_id \in cids

\* SelectSubscriptionsByLocalityCategories: the results it can give.
SelectSubscriptionsByLocalityCategories(l, cids) ==
    DistinctOnCreator(
        {SubscriptionValue(s) : s \in {x \in subscription :
            SubscriptionJoins(x) /\ SubscriptionMatches(x, l, cids)}})

\* SelectSubscriptionsByUser.
SelectSubscriptionsByUser(uid) ==
    {SubscriptionValue(s) : s \in {x \in subscription :
        SubscriptionJoins(x) /\ x.creator_id = uid}}

\* The exists query as it would be over rows that are kept when deleted:
\* true for every id that was ever inserted.
SelectSubscriptionExistsEver(sid) == sid \in 1..subSeq

\* SelectSubscriptionExists.
SelectSubscriptionExists(sid) == \E s \in subscription : s.id = sid

(* ------------------------------ statistics ----------------------------- *)

\* selectActivityStatsSQL: count(*) of help and count(*) of subscription,
\* neither with a where clause.
SelectActivityStats ==
    [helps |-> Cardinality(help), subs |-> Cardinality(subscription)]

(* --------------------------- locality: resolver ------------------------ *)

\* The longest text a user types, and the letters it is made of.
MaxLen == 3
Alphabet == {"a", "b", "c", "d"}
Texts == UNION {[1..n -> Alphabet] : n \in 0..MaxLen}

\* Columns name_ua and name_ru of locality, indexed by id.  The second city
\* is spelled differently in the two languages, the second district too.
name_ua ==
    << <<"d", "d">>, <<"c", "d">>, <<"b", "c", "d">>, <<"d", "c", "b">>,
       <<"a", "b">>, <<"a", "b", "b">>, <<"a", "b", "c">>, <<"c", "b", "d", "a">>,
       <<"a", "c">> >>

name_ru ==
    << <<"d", "d">>, <<"c", "d">>, <<"b", "c", "d">>, <<"d", "c", "a">>,
       <<"a", "b">>, <<"a", "a", "b">>, <<"a", "b", "c">>, <<"a", "b", "d">>,
       <<"a", "c">> >>

Min3(a, b, c) ==
    IF a <= b /\ a <= c THEN a ELSE IF b <= c THEN b ELSE c

\* levenshtein(source, target): the least number of insertions, deletions
\* and substitutions of one character that turn one text into the other.
RECURSIVE levenshtein(_, _)
levenshtein(a, b) ==
    IF a = <<>> THEN Len(b)
    ELSE IF b = <<>> THEN Len(a)
    ELSE Min3(levenshtein(Tail(a), b) + 1,
              levenshtein(a, Tail(b)) + 1,
              levenshtein(Tail(a), Tail(b)) + (IF Head(a) = Head(b) THEN 0 ELSE 1))

\* The two inner joins of selectLocalityRegionsSQL: l1 has a parent l2 and
\* l2 has a parent l3.
LocalityJoins(l) ==
    /\ Locality[l].parent_id \in LocalityIDs
    /\ Locality[Locality[l].parent_id].parent_id \in LocalityIDs

\* The where clause with both names admitted up to distance 2.
LocalityWhereWithin2(l, s) ==
    \/ levenshtein(name_ua[l], s) <= 2
    \/ /\ levenshtein(name_ru[l], s) <= 2
       /\ Locality[l].type # "DISTRICT"
       /\ Locality[l].type # "STATE"
       /\ Locality[l].type # "COUNTRY"

\* The where clause of selectLocalityRegionsSQL; `and` binds tighter than
\* `or`, so the three conditions on the type go with the name_ru test only.
LocalityWhere(l, s) ==
    \/ levenshtein(name_ua[l], s) <= 1
    \/ /\ levenshtein(name_ru[l], s) <= 1
       /\ Locality[l].type # "DISTRICT"
       /\ Locality[l].type # "STATE"
       /\ Locality[l].type # "COUNTRY"

\* A scanned LocalityRegion: the region is the name of l3, leven the
\* distance to name_ua.
LocalityRegion(l, s) ==
    [id |-> l, type |-> Locality[l].type,
     public_name_ua |-> Locality[l].public_name_ua,
     region_public_name_ua |->
         Locality[Locality[Locality[l].parent_id].parent_id].public_name_ua,
     leven |-> levenshtein(name_ua[l], s)]

\* case l1.type when 'CITY' then 1 ... end: null for every other type.
TypeOrder(type) ==
    CASE type = "CITY" -> 1
      [] type = "URBAN" -> 2
      [] type = "SETTLEMENT" -> 3
      [] type = "VILLAGE" -> 4
      [] OTHER -> NULL

\* An order by the case expression alone.
OrderLeqTypeOnly(a, b) ==
    \/ TypeOrder(a.type) = TypeOrder(b.type)
    \/ TypeOrder(b.type) = NULL
    \/ TypeOrder(a.type) # NULL /\ TypeOrder(a.type) < TypeOrder(b.type)

\* order by case ... end, leven: ascending, nulls last; a may stand before b.
OrderLeq(a, b) ==
    IF TypeOrder(a.type) = TypeOrder(b.type)
    THEN a.leven <= b.leven
    ELSE \/ TypeOrder(b.type) = NULL
         \/ TypeOrder(a.type) # NULL /\ TypeOrder(a.type) < TypeOrder(b.type)

\* The sequences the order by can give for a set of rows: rows that compare
\* equal come in any order.
RECURSIVE OrderBy(_)
OrderBy(rows) ==
    IF rows = {} THEN {<<>>}
    ELSE UNION {{<<r>> \o rest : rest \in OrderBy(rows \ {r})} :
                   r \in {x \in rows : \A y \in rows : OrderLeq(x, y)}}

\* SelectLocalityRegions: the results the call can give for a text, each
\* with a nil error.
SelectLocalityRegions(s) ==
    {[localities |-> q, err |-> ErrFromCode("nil")] :
        q \in OrderBy({LocalityRegion(l, s) :
                         l \in {k \in LocalityIDs : LocalityJoins(k) /\ LocalityWhere(k, s)}})}

\* No call was answered yet.
Unanswered == [localities |-> <<>>, err |-> "unanswered"]

\* A user's text comes in as the argument of SelectLocalityRegions.
Ask(s) ==
    /\ text' = s
    /\ regions' = Unanswered
    /\ UNCHANGED <<help, subscription, subSeq, now, app_user, updates, pc, batch,
                   ctxDone, upserts, uidSeq, reaper, dialog, ret>>

\* The statement is executed and the call returns.
Answer ==
    /\ regions = Unanswered
    /\ regions' \in SelectLocalityRegions(text)
    /\ UNCHANGED <<help, subscription, subSeq, now, app_user, text, updates, pc, batch,
                   ctxDone, upserts, uidSeq, reaper, dialog, ret>>

(* ------------------------------ app_user ------------------------------- *)

\* How many calls of UpsertUser are made, and the ids uuid.New() gives them.
MaxUpserts == 2
UserUUIDs == <<"u3", "u4", "u5", "u6">>

\* uaLang.
uaLang == "UA"

\* UpsertUser up to the statement: the id, the default language and the two
\* timestamps are set on the User the caller passed.
UpsertUserBegin(tg, chat, name, lang) ==
    /\ uidSeq < MaxUpserts
    /\ upserts' = upserts \cup
         {[id |-> UserUUIDs[uidSeq + 1], tg_id |-> tg, chat_id |-> chat,
           name |-> name, language |-> IF lang = "" THEN uaLang ELSE lang,
           created_at |-> now, updated_at |-> now]}
    /\ uidSeq' = uidSeq + 1
    /\ UNCHANGED <<help, subscription, subSeq, now, app_user, text, regions,
                   updates, pc, batch, ctxDone, reaper, dialog, ret>>

\* An update on conflict that refreshes updated_at too.
OnConflictTouch(row, user) ==
    [row EXCEPT !.name = user.name, !.updated_at = user.updated_at]

\* on conflict (tg_id) do update set name = $4.
OnConflictDoUpdate(row, user) == [row EXCEPT !.name = user.name]

\* upsertUserSQL: the row is inserted, or the row that holds the tg_id is
\* updated.
UpsertUserRows(user) ==
    IF \E r \in app_user : r.tg_id = user.tg_id
    THEN {IF r.tg_id = user.tg_id THEN OnConflictDoUpdate(r, user) ELSE r :
             r \in app_user}
    ELSE app_user \cup {user}

\* returning u.id: the id of the row written, which UpsertUser puts into
\* the User it returns.
UpsertUserID(user) ==
    IF \E r \in app_user : r.tg_id = user.tg_id
    THEN (CHOOSE r \in app_user : r.tg_id = user.tg_id).id
    ELSE user.id

\* The statement of one call in flight is executed.
UpsertUserExec(user) ==
    /\ user \in upserts
    /\ app_user' = UpsertUserRows(user)
    /\ upserts' = upserts \ {user}
    /\ UNCHANGED <<help, subscription, subSeq, now, text, regions,
                   updates, pc, batch, ctxDone, uidSeq, reaper, dialog, ret>>

(* --------------------------- specifications --------------------------- *)

\* The rows of app_user at the start: two users who wrote to the bot, with
\* the default language.
SeedUsers ==
    {[id |-> "u1", tg_id |-> 1, chat_id |-> 1, name |-> "Ann", language |-> "UA",
      created_at |-> 0, updated_at |-> 0],
     [id |-> "u2", tg_id |-> 2, chat_id |-> 2, name |-> "Bob", language |-> "UA",
      created_at |-> 0, updated_at |-> 0]}

Init ==
    /\ help = {}
    /\ subscription = {}
    /\ subSeq = 0
    /\ now = 0
    /\ app_user = SeedUsers
    /\ text = <<>>
    /\ regions = Unanswered
    /\ updates = <<>>
    /\ pc = "select"
    /\ batch = <<>>
    /\ ctxDone = FALSE
    /\ upserts = {}
    /\ uidSeq = 0
    /\ reaper = [cutoff |-> 0, helps |-> {}, deleted |-> {}]
    /\ dialog = [next |-> "userRoleRequest", categories |-> <<>>, categoryKeyboard |-> <<>>]
    /\ ret = [op |-> "", pqerr |-> "nil", err |-> "nil"]

\* The life of a posting: any creator, any category array (the empty one
\* too), at one village, as time passes.
LifeLocalities == {5}

CreateStep ==
    \E creator \in AppUser, cats \in SUBSET Category, loc \in LifeLocalities,
       desc \in Descriptions :
        InsertHelp(creator, cats, loc, desc)

DeleteStep == \E id \in HelpIDs : DeleteHelp(id)

RenewStep == \E id \in HelpIDs : KeepHelp(id)

Next == CreateStep \/ DeleteStep \/ RenewStep \/ Tick

Spec == Init /\ [][Next]_vars

\* Matching: postings and subscriptions spread over the localities of the
\* two districts, at one instant.
MatchHelpLocalities == {5, 6, 7, 8}
MatchSubLocalities == {5, 7, 9}
MatchCategorySets == {{"Food"}, {"Food", "Meds"}}

PostStep ==
    \E cats \in MatchCategorySets, loc \in MatchHelpLocalities,
       desc \in Descriptions :
        InsertHelp("u1", cats, loc, desc)

SubscribeStep ==
    \E creator \in AppUser, cat \in Category, loc \in MatchSubLocalities :
        InsertSubscription(creator, cat, loc)

UnsubscribeStep == \E id \in SubIDs : DeleteSubscription(id)

NextMatch == PostStep \/ DeleteStep \/ SubscribeStep \/ UnsubscribeStep

SpecMatch == Init /\ [][NextMatch]_vars

\* Lookup: postings at one village, created, renewed and deleted by either
\* user, and subscriptions at the village and at its sibling, at one instant.
LookupSubLocalities == {5, 6}

OfferStep ==
    \E creator \in AppUser, cats \in MatchCategorySets, loc \in LifeLocalities,
       desc \in Descriptions :
        InsertHelp(creator, cats, loc, desc)

FollowStep ==
    \E cat \in Category, loc \in LookupSubLocalities :
        InsertSubscription("u1", cat, loc)

NextLookup ==
    OfferStep \/ DeleteStep \/ RenewStep \/ FollowStep \/ UnsubscribeStep

SpecLookup == Init /\ [][NextLookup]_vars

(* ------------------------------ claims --------------------------------- *)

\* The ids of a result.
Ids(rows) == {r.id : r \in rows}

\* The row of help with this id.
HelpRow(id) == CHOOSE h \in help : h.id = id

\* The row of subscription with this id.
SubRow(id) == CHOOSE s \in subscription : s.id = id

\* The rollup rule as the specification words it: the same locality, or two
\* localities of one parent whose types both roll up.
RollupRule(l, s) ==
    \/ l = s
    \/ /\ SqlEq(Locality[l].parent_id, Locality[s].parent_id)
       /\ Locality[l].type \in RollupTypes
       /\ Locality[s].type \in RollupTypes

\* C1: for every posting and every subscription whose category is among the
\* posting's and whose locality satisfies the rollup rule against the
\* posting's, SelectSubscriptionsByLocalityCategories, called with the
\* posting's locality and categories, returns a subscription of that
\* subscription's creator.
C1_SubscriptionsForRollsUp ==
    \A h \in help, s \in subscription :
        (s.category_id \in h.category_ids /\ RollupRule(h.locality_id, s.locality_id))
        => \A res \in SelectSubscriptionsByLocalityCategories(h.locality_id, h.category_ids) :
               \E r \in res : r.creator_id = s.creator_id

\* C2: SelectHelpsBySubscription returns a posting if and only if it is not
\* deleted, the subscription's category is among its categories, and the two
\* localities satisfy the rollup rule with BOTH types rolling up.
C2_PostingsForIffRollup ==
    \A h \in help, s \in subscription :
        (h.id \in Ids(SelectHelpsBySubscription(s.id)))
        <=> /\ h.deleted_at = NULL
            /\ s.category_id \in h.category_ids
            /\ RollupRule(h.locality_id, s.locality_id)

C4_CityNeverRollsUp ==
    /\ \A x \in LocalityIDs :
        Locality[x].type = "CITY" =>
            /\ \A c \in Category :
                   \A r \in SelectHelpsByLocalityCategory(x, c) :
                       HelpRow(r.id).locality_id = x
            /\ \A s \in subscription :
                   s.locality_id = x =>
                       \A r \in SelectHelpsBySubscription(s.id) :
                           HelpRow(r.id).locality_id = x
            /\ \A h \in help :
                   h.locality_id = x =>
                       \A res \in SelectSubscriptionsByLocalityCategories(x, h.category_ids) :
                           \A r \in res : SubRow(r.id).locality_id = x
    /\ \A h \in help, s \in subscription :
        (/\ Locality[h.locality_id].type = "CITY"
         /\ Locality[s.locality_id].type = "VILLAGE"
         /\ Locality[h.locality_id].parent_id # Locality[s.locality_id].parent_id)
        => /\ h.id \notin Ids(SelectHelpsBySubscription(s.id))
           /\ \A res \in SelectSubscriptionsByLocalityCategories(h.locality_id, h.category_ids) :
                  s.id \notin Ids(res)

\* A live posting at one city, a subscription to one of its categories at a
\* sibling city, and a subscription at a village of another district.
C4_Witness ==
    \E h \in help, s, v \in subscription :
        /\ h.deleted_at = NULL
        /\ Locality[h.locality_id].type = "CITY"
        /\ Locality[s.locality_id].type = "CITY"
        /\ s.locality_id # h.locality_id
        /\ Locality[s.locality_id].parent_id = Locality[h.locality_id].parent_id
        /\ s.category_id \in h.category_ids
        /\ SelectHelpsBySubscription(s.id) = {}
        /\ Locality[v.locality_id].type = "VILLAGE"
        /\ Locality[v.locality_id].parent_id # Locality[h.locality_id].parent_id
        /\ v.category_id \in h.category_ids

\* C5: a posting whose deleted_at is set is in no result of SelectHelpsByUser,
\* SelectHelpsByLocalityCategory, SelectHelpsBySubscription or
\* SelectExpiredHelps, and SelectHelpsCountByUser does not count it.
C5_DeletedNeverReturned ==
    LET deleted == {h.id : h \in {g \in help : g.deleted_at # NULL}}
    IN  /\ \A u \in AppUser : Ids(SelectHelpsByUser(u)) \cap deleted = {}
        /\ \A l \in LocalityIDs, c \in Category :
               Ids(SelectHelpsByLocalityCategory(l, c)) \cap deleted = {}
        /\ \A s \in subscription : Ids(SelectHelpsBySubscription(s.id)) \cap deleted = {}
        /\ \A t \in Cutoffs : Ids(SelectExpiredHelps(t)) \cap deleted = {}
        /\ \A u \in AppUser :
               SelectHelpsCountByUser(u)
                   <= Cardinality({g \in help : g.creator_id = u /\ g.id \notin deleted})

\* A posting renewed and deleted that each of the queries would return
\* were it not deleted: a subscription rolls up to it, a cutoff lies beyond
\* its last activity.
C5_Witness ==
    \E h \in help, s \in subscription :
        /\ h.deleted_at # NULL
        /\ h.updated_at # NULL
        /\ s.category_id \in h.category_ids
        /\ s.locality_id # h.locality_id
        /\ h.locality_id \in RegLocalities(s.locality_id)
        /\ \E t \in Cutoffs : SqlLt(h.updated_at, t)

\* C6: SelectHelpByID returns ErrNotFound whenever no posting has the id or
\* the posting with the id is deleted; it returns a posting only for the id
\* of a posting that is not deleted.
C6_GetByIDNotFoundWhenDeleted ==
    \A id \in HelpIDs :
        /\ ((~ \E h \in help : h.id = id) \/ (\E h \in help : h.id = id /\ h.deleted_at # NULL))
           => SelectHelpByID(id).err = "ErrNotFound"
        /\ SelectHelpByID(id).err = "nil"
           => \E h \in help : h.id = id /\ h.deleted_at = NULL

\* What the read operations show of the store.
Observable ==
    [byID |-> [id \in HelpIDs |-> SelectHelpByID(id)],
     byUser |-> [u \in AppUser |-> SelectHelpsByUser(u)],
     count |-> [u \in AppUser |-> SelectHelpsCountByUser(u)],
     byLocality |-> [l \in LocalityIDs |-> [c \in Category |-> SelectHelpsByLocalityCategory(l, c)]],
     expired |-> [t \in Cutoffs |-> SelectExpiredHelps(t)],
     bySubscription |-> [sid \in SubIDs |-> SelectHelpsBySubscription(sid)],
     subsByUser |-> [u \in AppUser |-> SelectSubscriptionsByUser(u)],
     subExists |-> [sid \in SubIDs |-> SelectSubscriptionExists(sid)]]

\* C7: DeleteHelp of a posting already deleted, and DeleteSubscription of a
\* subscription already deleted, return no error and leave every read
\* operation's result as it was, the posting's stored deleted_at included.
C7_DeleteIdempotent ==
    [][/\ \A id \in HelpIDs :
            (DeleteHelp(id) /\ \E h \in help : h.id = id /\ h.deleted_at # NULL)
            => (DeleteHelpErr(id) = "nil" /\ Observable' = Observable)
       /\ \A sid \in SubIDs :
            (DeleteSubscription(sid) /\ sid <= subSeq /\ ~ SelectSubscriptionExists(sid))
            => (DeleteSubscriptionErr(sid) = "nil" /\ Observable' = Observable)]_vars

\* The effective last-activity timestamp of a posting.
LastActivity(h) == IF h.updated_at # NULL THEN h.updated_at ELSE h.created_at

\* C8: SelectExpiredHelps(cutoff) returns a posting if and only if it is not
\* deleted and its last-activity timestamp is strictly before cutoff.
C8_ExpiredIff ==
    \A h \in help, t \in Cutoffs :
        (h.id \in Ids(SelectExpiredHelps(t)))
        <=> (h.deleted_at = NULL /\ LastActivity(h) < t)

\* C9: KeepHelp at time t sets updated_at to t, and from then on the posting
\* is in SelectExpiredHelps(cutoff) for no cutoff <= its updated_at, however
\* old its created_at: it is listed again only for a cutoff beyond it.
C9_RenewClearsExpiry ==
    /\ [][\A id \in HelpIDs :
            (KeepHelp(id) /\ \E h \in help : h.id = id)
            => \A h \in help' :
                   h.id = id =>
                       /\ h.updated_at = now
                       /\ \A t \in Cutoffs :
                              t <= now => id \notin Ids(SelectExpiredHelps(t))']_vars
    /\ [](\A h \in help :
            h.updated_at # NULL =>
                \A t \in Cutoffs :
                    h.id \in Ids(SelectExpiredHelps(t)) => t > h.updated_at)

\* A posting renewed after its creation: the cutoff of the renewal instant,
\* later than created_at, does not list it, the next cutoff does.
C9_Witness ==
    \E h \in help :
        /\ h.updated_at # NULL
        /\ h.created_at < h.updated_at
        /\ h.id \notin Ids(SelectExpiredHelps(h.updated_at))
        /\ h.id \in Ids(SelectExpiredHelps(h.updated_at + 1))

\* C10: InsertHelp with an empty category array fails with a validation
\* error and adds no row.
C10_EmptyCategoriesRejected ==
    [][\A creator \in AppUser, loc \in LocalityIDs, desc \in Descriptions :
          InsertHelp(creator, {}, loc, desc)
          => /\ InsertHelpErr(creator, {}, loc, desc) = "ValidationError"
             /\ help' = help]_vars

(* ------------------- posting and reading back -------------------------- *)

\* The localities one can post against, and the descriptions typed.
PostableLocalities == {l \in LocalityIDs : Locality[l].type \in RollupTypes \cup {"CITY"}}
TypedDescriptions == {"d1", "d2"}

\* A volunteer posts help: a registered creator, one category at least.
WriteStep ==
    \E creator \in AppUser, cats \in (SUBSET Category) \ {{}},
       loc \in PostableLocalities, desc \in TypedDescriptions :
        InsertHelp(creator, cats, loc, desc)

NextRoundTrip == WriteStep \/ Tick

SpecRoundTrip == Init /\ [][NextRoundTrip]_vars

\* C11: InsertHelp with a registered creator, a non-empty set of categories,
\* a locality and a description, followed at once by SelectHelpByID on the
\* returned id, gives no error and a posting with the categories, the
\* locality and the description of the input, created_at the time of the
\* insert, updated_at and deleted_at unset.
C11_RoundTrip ==
    [][\A creator \in AppUser, cats \in (SUBSET Category) \ {{}},
         loc \in PostableLocalities, desc \in TypedDescriptions :
          \A id \in HelpIDs :
              (id = NewHelpID /\ InsertHelp(creator, cats, loc, desc)) =>
                  /\ InsertHelpErr(creator, cats, loc, desc) = "nil"
                  /\ SelectHelpByID(id)'.err = "nil"
                  /\ SelectHelpByID(id)'.help.id = id
                  /\ SelectHelpByID(id)'.help.creator_id = creator
                  /\ SelectHelpByID(id)'.help.categories = cats
                  /\ SelectHelpByID(id)'.help.loc_public_name_ua
                         = Locality[loc].public_name_ua
                  /\ SelectHelpByID(id)'.help.description = desc
                  /\ SelectHelpByID(id)'.help.created_at = now
                  /\ SelectHelpByID(id)'.help.created_at # NULL
                  /\ SelectHelpByID(id)'.help.updated_at = NULL
                  /\ SelectHelpByID(id)'.help.deleted_at = NULL]_vars

\* A posting with both categories and the second description, made after
\* the clock moved, at a locality that is not a village.
C11_Witness ==
    \E h \in help :
        /\ h.category_ids = Category
        /\ h.description = "d2"
        /\ h.created_at > 0
        /\ Locality[h.locality_id].type = "URBAN"
        /\ SelectHelpByID(h.id).err = "nil"

\* C12: SelectHelpsCountByUser(u) is the number of postings of u that are
\* not deleted: 0 for a user without postings and for a user whose postings
\* are all deleted, one more after each InsertHelp by u, one less after
\* DeleteHelp of a posting of u that was not deleted, and the same after
\* every other step.
C12_CountActiveByUser ==
    /\ [](\A u \in AppUser :
            /\ SelectHelpsCountByUser(u)
                   = Cardinality({h \in help : h.creator_id = u /\ h.deleted_at = NULL})
            /\ (\A h \in help : h.creator_id = u => h.deleted_at # NULL)
                   => SelectHelpsCountByUser(u) = 0)
    /\ [][\A u \in AppUser :
            /\ \A creator \in AppUser, cats \in SUBSET Category,
                  loc \in LifeLocalities, desc \in Descriptions :
                   InsertHelp(creator, cats, loc, desc) =>
                       SelectHelpsCountByUser(u)'
                           = SelectHelpsCountByUser(u) + (IF u = creator THEN 1 ELSE 0)
            /\ \A id \in HelpIDs :
                   DeleteHelp(id) =>
                       SelectHelpsCountByUser(u)'
                           = SelectHelpsCountByUser(u)
                               - (IF \E h \in help : /\ h.id = id
                                                      /\ h.creator_id = u
                                                      /\ h.deleted_at = NULL
                                  THEN 1 ELSE 0)
            /\ \A id \in HelpIDs :
                   KeepHelp(id) => SelectHelpsCountByUser(u)' = SelectHelpsCountByUser(u)
            /\ Tick => SelectHelpsCountByUser(u)' = SelectHelpsCountByUser(u)]_vars

\* One user's only posting is deleted and the count is back to 0.
C12_Witness ==
    \E h \in help :
        /\ h.deleted_at # NULL
        /\ \A g \in help : g.creator_id = h.creator_id => g.deleted_at # NULL
        /\ SelectHelpsCountByUser(h.creator_id) = 0

(* ------------------------- resolving a locality ------------------------ *)

AskStep == \E s \in Texts : Ask(s)

NextResolve == AskStep \/ Answer

SpecResolve == Init /\ [][NextResolve]_vars

\* The call for the current text has returned.
Answered == regions.err = "nil"

\* C13: no returned locality is of type COUNTRY, STATE or DISTRICT.
C13_NoCoarseTypes ==
    Answered =>
        \A i \in DOMAIN regions.localities :
            regions.localities[i].type \notin {"COUNTRY", "STATE", "DISTRICT"}

\* The least distance of the text to the two names of a locality.
NameDistance(l, s) ==
    IF levenshtein(name_ua[l], s) <= levenshtein(name_ru[l], s)
    THEN levenshtein(name_ua[l], s)
    ELSE levenshtein(name_ru[l], s)

C15_OnlyWithinDistanceOne ==
    regions # Unanswered =>
        /\ \A i \in DOMAIN regions.localities :
               NameDistance(regions.localities[i].id, text) <= 1
        /\ (\A l \in LocalityIDs : NameDistance(l, text) > 1) =>
               /\ regions.localities = <<>>
               /\ regions.err = "nil"

\* A text two edits away from the nearest name was answered with nothing.
C15_Witness ==
    /\ regions # Unanswered
    /\ regions.localities = <<>>
    /\ text # <<>>
    /\ \A l \in LocalityIDs : NameDistance(l, text) > 1
    /\ \E l \in LocalityIDs : LocalityJoins(l) /\ NameDistance(l, text) = 2

\* The distances of the text to the names that admit a locality.
AdmittingDistances(l, s) ==
    {d \in {levenshtein(name_ua[l], s), levenshtein(name_ru[l], s)} : d <= 1}

\* C16: of two returned localities of the types CITY, URBAN, SETTLEMENT and
\* VILLAGE the earlier one is not of lower type priority, and when they are
\* of the same type the earlier one is not farther from the text, by the
\* name that admitted it, than the later one.
C16_OrderedByTypeThenDistance ==
    Answered =>
        \A i, j \in DOMAIN regions.localities :
            (/\ i < j
             /\ TypeOrder(regions.localities[i].type) # NULL
             /\ TypeOrder(regions.localities[j].type) # NULL)
            => /\ TypeOrder(regions.localities[i].type)
                      <= TypeOrder(regions.localities[j].type)
               /\ regions.localities[i].type = regions.localities[j].type =>
                      \E di \in AdmittingDistances(regions.localities[i].id, text),
                         dj \in AdmittingDistances(regions.localities[j].id, text) :
                          di <= dj

\* C17: DeleteSubscription(s) leaves no row with the id, and in every state
\* where a subscription id that was given out has no row, the id is in no
\* result of SelectSubscriptionsByUser, in no result of
\* SelectSubscriptionsByLocalityCategories for any posting,
\* SelectHelpsBySubscription gives no posting for it and
\* SelectSubscriptionExists is false.
C17_DeletedSubscriptionInert ==
    /\ [][\A sid \in SubIDs :
            DeleteSubscription(sid) =>
                /\ DeleteSubscriptionErr(sid) = "nil"
                /\ \A s \in subscription' : s.id # sid
                /\ ~ SelectSubscriptionExists(sid)']_vars
    /\ [](\A sid \in 1..subSeq :
            (\A s \in subscription : s.id # sid) =>
                /\ ~ SelectSubscriptionExists(sid)
                /\ SelectHelpsBySubscription(sid) = {}
                /\ \A u \in AppUser : sid \notin Ids(SelectSubscriptionsByUser(u))
                /\ \A h \in help :
                       \A res \in SelectSubscriptionsByLocalityCategories(
                                      h.locality_id, h.category_ids) :
                           sid \notin Ids(res))

\* The first subscription was deleted while a second one still matches a
\* live posting.
C17_Witness ==
    /\ subSeq >= 2
    /\ \A s \in subscription : s.id # 1
    /\ \E s \in subscription, h \in help :
           /\ h.deleted_at = NULL
           /\ h.id \in Ids(SelectHelpsBySubscription(s.id))
           /\ \E res \in SelectSubscriptionsByLocalityCategories(
                             h.locality_id, h.category_ids) : s.id \in Ids(res)

\* C20: for every subscription, SelectHelpsBySubscription returns the same
\* postings as SelectHelpsByLocalityCategory for the subscription's locality
\* and category, and no two postings of either result have the same id.
C20_PostingQueriesAgree ==
    \A s \in subscription :
        LET bySub == SelectHelpsBySubscription(s.id)
            byLoc == SelectHelpsByLocalityCategory(s.locality_id, s.category_id)
        IN  /\ bySub = byLoc
            /\ Cardinality(Ids(bySub)) = Cardinality(bySub)
            /\ Cardinality(Ids(byLoc)) = Cardinality(byLoc)

\* A village subscription that gets a posting of another locality of its
\* district, next to a subscription for which both queries give nothing.
C20_Witness ==
    \E s, t \in subscription, h \in help :
        /\ h.locality_id # s.locality_id
        /\ HelpValue(h) \in SelectHelpsBySubscription(s.id)
        /\ HelpValue(h) \in SelectHelpsByLocalityCategory(s.locality_id, s.category_id)
        /\ SelectHelpsBySubscription(t.id) = {}

(* --------------------------- registering users ------------------------- *)

\* What Telegram sends: the handle of a known user or of a new one, a chat,
\* a display name, and no language or Russian.
TgIDs == {1, 3}
ChatIDs == {9}
Names == {"Ann", "Zed"}
Languages == {"", "RU"}

\* The calls UpsertUser can be made with while the store is as it is.
UpsertCalls ==
    [id : {UserUUIDs[i] : i \in DOMAIN UserUUIDs}, tg_id : TgIDs, chat_id : ChatIDs,
     name : Names, language : {uaLang, "RU"}, created_at : Times, updated_at : Times]

BeginStep ==
    \E tg \in TgIDs, chat \in ChatIDs, name \in Names, lang \in Languages :
        UpsertUserBegin(tg, chat, name, lang)

ExecStep == \E user \in upserts : UpsertUserExec(user)

NextUser == BeginStep \/ ExecStep \/ Tick

SpecUser == Init /\ [][NextUser]_vars

\* C18: app_user never holds two rows with one tg_id; a call of UpsertUser
\* for a tg_id that has a row returns the id of that row, changes the row's
\* name to the one passed and nothing else of it, and leaves every other
\* row as it is.
C18_OneRowPerHandle ==
    /\ [](\A r, q \in app_user : r.tg_id = q.tg_id => r = q)
    /\ [][\A user \in UpsertCalls :
            UpsertUserExec(user) =>
                \A r \in app_user :
                    IF r.tg_id = user.tg_id
                    THEN /\ UpsertUserID(user) = r.id
                         /\ [r EXCEPT !.name = user.name] \in app_user'
                         /\ Cardinality(app_user') = Cardinality(app_user)
                    ELSE r \in app_user']_vars

\* Two calls for the one known user are done, no row was added: the row
\* has the new name and still its id, chat, language and timestamps, though
\* every call came with another chat and the clock has moved.
C18_Witness ==
    /\ uidSeq >= 2
    /\ upserts = {}
    /\ now > 0
    /\ \E r \in app_user :
           /\ r.tg_id = 1 /\ r.id = "u1" /\ r.name = "Zed"
           /\ r.chat_id = 1 /\ r.language = uaLang
           /\ r.created_at = 0 /\ r.updated_at = 0
    /\ Cardinality(app_user) = 2

(* ----------------------- delivering notifications ---------------------- *)

\* Batches the channel holds at most, records a batch holds at most, and
\* the chats the records are for.
MaxQueue == 2
MaxBatch == 2
Chats == {1, 2}
Batches == UNION {[1..n -> Chats] : n \in 1..MaxBatch}

storeVars == <<help, subscription, subSeq, now, app_user, text, regions, upserts, uidSeq,
               reaper, dialog, ret>>

\* The service puts a batch on the channel Subscriptions() returns; it
\* blocks while the channel is full.
Enqueue(upd) ==
    /\ Len(updates) < MaxQueue
    /\ updates' = Append(updates, upd)
    /\ UNCHANGED <<pc, batch, ctxDone, storeVars>>

\* The context NewMessageHandler was given is cancelled.
Cancel ==
    /\ ~ ctxDone
    /\ ctxDone' = TRUE
    /\ UNCHANGED <<updates, pc, batch, storeVars>>

\* case upd := <-m.Service.Subscriptions(): the worker takes a batch and
\* starts to range over it.
Receive ==
    /\ pc = "select"
    /\ updates # <<>>
    /\ batch' = Head(updates)
    /\ updates' = Tail(updates)
    /\ pc' = "send"
    /\ UNCHANGED <<ctxDone, storeVars>>

\* case <-ctx.Done(): return.
Done ==
    /\ pc = "select"
    /\ ctxDone
    /\ pc' = "returned"
    /\ UNCHANGED <<updates, batch, ctxDone, storeVars>>

\* m.Api.Send(msg) returns no error: on to the next record, or back to the
\* select after the last one.
SendOk ==
    /\ pc = "send"
    /\ batch' = Tail(batch)
    /\ pc' = IF Tail(batch) = <<>> THEN "select" ELSE "send"
    /\ UNCHANGED <<updates, ctxDone, storeVars>>

\* m.Api.Send(msg) returns an error: it is logged and the worker returns.
SendErr ==
    /\ pc = "send"
    /\ pc' = "returned"
    /\ UNCHANGED <<updates, batch, ctxDone, storeVars>>

EnqueueStep == \E upd \in Batches : Enqueue(upd)

NextDispatch == EnqueueStep \/ Cancel \/ Receive \/ Done \/ SendOk \/ SendErr

SpecDispatch == Init /\ [][NextDispatch]_vars

\* C19: a send that returns an error does not end the worker: it goes on
\* with the rest of the batch or back to the select on the channel, and it
\* has returned only when the context is cancelled.
C19_SendErrorDoesNotStopWorker ==
    [][/\ SendErr => pc' \in {"select", "send"}
       /\ pc' = "returned" => ctxDone]_vars

(* --------------------------- expiring postings ------------------------- *)

reapFrame == <<subscription, subSeq, now, app_user, text, regions, updates, pc, batch,
               ctxDone, upserts, uidSeq, dialog, ret>>

\* The reaper lists the postings expired at a cutoff: SelectExpiredHelps.
Scan(t) ==
    /\ reaper' = [cutoff |-> t, helps |-> {h.id : h \in SelectExpiredHelps(t)},
                  deleted |-> {}]
    /\ UNCHANGED <<help, reapFrame>>

\* The reaper deletes one posting of its list: DeleteHelp, with no second
\* look at the posting.
Reap(id) ==
    /\ id \in reaper.helps \ reaper.deleted
    /\ help' = DeleteHelpRows(id, now)
    /\ reaper' = [reaper EXCEPT !.deleted = @ \cup {id}]
    /\ UNCHANGED reapFrame

\* One volunteer posts food help in the village.
ReapCreateStep == InsertHelp("u1", {"Food"}, 5, "d1")

ScanStep == \E t \in Cutoffs : Scan(t)

ReapStep == \E id \in HelpIDs : Reap(id)

NextReap == ReapCreateStep \/ RenewStep \/ Tick \/ ScanStep \/ ReapStep

SpecReap == Init /\ [][NextReap]_vars

\* C21: the reaper's DeleteHelp of a posting it listed soft-deletes the
\* posting whatever has happened to it since the scan: also when KeepHelp
\* has moved its last activity to the cutoff or past it.
C21_ReapDeletesWithoutRecheck ==
    [][\A id \in HelpIDs :
          Reap(id) =>
              /\ DeleteHelpErr(id) = "nil"
              /\ \A h \in help :
                     h.id = id =>
                         /\ h.deleted_at = NULL
                         /\ HelpRow(id)'.deleted_at = now
                         /\ HelpRow(id)'.updated_at = h.updated_at]_vars

\* A posting the reaper listed and deleted, renewed in between: created
\* before the cutoff, renewed at the cutoff or later, deleted after that.
C21_Witness ==
    \E h \in help :
        /\ h.id \in reaper.helps
        /\ h.id \in reaper.deleted
        /\ h.created_at < reaper.cutoff
        /\ h.updated_at # NULL
        /\ h.updated_at >= reaper.cutoff
        /\ h.deleted_at # NULL
        /\ h.updated_at < h.deleted_at
        /\ LastActivity(h) >= reaper.cutoff

(* ------------------------------ failures ------------------------------- *)

\* The methods of Postgres that hand the driver's error to ErrFromCode.
Operations ==
    {"UpsertUser", "SelectLocalityRegions", "InsertHelp", "SelectHelpByID",
     "SelectHelpsByLocalityCategory", "SelectHelpsByUser", "DeleteHelp",
     "SelectExpiredHelps", "KeepHelp", "InsertSubscription",
     "SelectSubscriptionsByUser", "SelectSubscriptionsByLocalityCategories",
     "DeleteSubscription", "SelectCategories", "SelectActivityStats",
     "SelectSubscriptionsCountByUser", "SelectHelpsCountByUser",
     "SelectHelpsBySubscription", "SelectSubscriptionExists"}

\* What the driver can come back with: no error, no rows, *pq.Error with
\* the code of a unique violation, of a foreign key violation and of a
\* cancelled query, a lost connection, an expired context, and the error of
\* Categories.Scan.
DriverErrors ==
    {"nil", "sql.ErrNoRows", "pq.23505", "pq.23503", "pq.57014",
     "driver.ErrBadConn", "context.DeadlineExceeded", "not ok"}

\* A method runs its statement, the driver returns pqerr, the method
\* returns ErrFromCode(pqerr).
StoreCall(op, pqerr) ==
    /\ ret' = [op |-> op, pqerr |-> pqerr, err |-> ErrFromCode(pqerr)]
    /\ UNCHANGED <<help, subscription, subSeq, now, app_user, text, regions, updates,
                   pc, batch, ctxDone, upserts, uidSeq, reaper, dialog>>

CallStep == \E op \in Operations, pqerr \in DriverErrors : StoreCall(op, pqerr)

NextFail == CallStep

SpecFail == Init /\ [][NextFail]_vars

\* C22: when the driver fails, the error the method returns is
\* ValidationError, NotFound, UniqueConstraintViolation or
\* TransientStoreError (never the driver's own error, never nil), and when
\* the driver does not fail the method returns nil.
C22_OnlyDocumentedErrors ==
    /\ ret.pqerr # "nil" =>
           ret.err \in {"ValidationError", "ErrNotFound", "ErrUniqueViolation",
                        "TransientStoreError"}
    /\ ret.pqerr = "nil" => ret.err = "nil"

(* ------------------------- after the deletion -------------------------- *)

\* A seeker of the neighbouring urban settlement subscribes to food help,
\* once.
WatchStep == subscription = {} /\ InsertSubscription("u2", "Food", 6)

NextPermanent == ReapCreateStep \/ DeleteStep \/ RenewStep \/ Tick \/ WatchStep

SpecPermanent == Init /\ [][NextPermanent]_vars

\* C23: a posting whose deleted_at is set has it set after every step,
\* KeepHelp and a second DeleteHelp included, and after the step it is in no
\* result of SelectHelpsByUser, SelectHelpsByLocalityCategory,
\* SelectHelpsBySubscription and SelectExpiredHelps and is not counted by
\* SelectHelpsCountByUser.
C23_DeletionIsPermanent ==
    [][LET deleted == {h.id : h \in {g \in help : g.deleted_at # NULL}}
       IN  deleted # {} =>
               /\ \A id \in deleted : \E g \in help' : g.id = id /\ g.deleted_at # NULL
               /\ \A u \in AppUser :
                      /\ Ids(SelectHelpsByUser(u))' \cap deleted = {}
                      /\ SelectHelpsCountByUser(u)'
                             = Cardinality({g \in help' : /\ g.creator_id = u
                                                          /\ g.id \notin deleted
                                                          /\ g.deleted_at = NULL})
               /\ \A l \in LocalityIDs, c \in Category :
                      Ids(SelectHelpsByLocalityCategory(l, c))' \cap deleted = {}
               /\ \A sid \in SubIDs :
                      Ids(SelectHelpsBySubscription(sid))' \cap deleted = {}
               /\ \A t \in Cutoffs : Ids(SelectExpiredHelps(t))' \cap deleted = {}]_vars

\* A posting renewed after its deletion and still deleted, which a
\* subscription made after the deletion would match and a cutoff past the
\* renewal would list.
C23_Witness ==
    \E h \in help, s \in subscription :
        /\ h.deleted_at # NULL
        /\ h.updated_at # NULL
        /\ h.deleted_at < h.updated_at
        /\ h.deleted_at < s.created_at
        /\ s.category_id \in h.category_ids
        /\ h.locality_id \in RegLocalities(s.locality_id)
        /\ \E t \in Cutoffs : SqlLt(h.updated_at, t)
        /\ SelectHelpsBySubscription(s.id) = {}

\* C24: DeleteHelp, KeepHelp and DeleteSubscription with an id that no row
\* has return a nil error and change no row of help, subscription and
\* app_user.
C24_NoRowNoErrorNoChange ==
    /\ [](/\ \A id \in HelpIDs :
               (\A h \in help : h.id # id) =>
                   /\ DeleteHelpErr(id) = "nil"
                   /\ KeepHelpErr(id) = "nil"
                   /\ \A t \in Times : DeleteHelpRows(id, t) = help
                   /\ \A t \in Times : KeepHelpRows(id, t) = help
           /\ \A sid \in SubIDs :
               (\A s \in subscription : s.id # sid) => DeleteSubscriptionErr(sid) = "nil")
    /\ [][/\ \A id \in HelpIDs :
               ((DeleteHelp(id) \/ KeepHelp(id)) /\ \A h \in help : h.id # id)
               => <<help, subscription, app_user>>' = <<help, subscription, app_user>>
           /\ \A sid \in SubIDs :
               (DeleteSubscription(sid) /\ \A s \in subscription : s.id # sid)
               => <<help, subscription, app_user>>' = <<help, subscription, app_user>>]_vars

\* The store holds a posting and a subscription, an earlier subscription
\* is gone, and ids without a row are at hand for all three calls.
C24_Witness ==
    /\ help # {}
    /\ subscription # {}
    /\ \E id \in HelpIDs : \A h \in help : h.id # id
    /\ \E sid \in 1..subSeq : \A s \in subscription : s.id # sid
    /\ \E sid \in SubIDs : sid > subSeq

\* The sum of SelectHelpsCountByUser over a set of users.
RECURSIVE CountActiveOver(_)
CountActiveOver(users) ==
    IF users = {} THEN 0
    ELSE LET u == CHOOSE x \in users : TRUE
         IN  SelectHelpsCountByUser(u) + CountActiveOver(users \ {u})

\* C25: SelectActivityStats gives as helps the number of postings that are
\* not deleted, which is the sum of SelectHelpsCountByUser over the users,
\* and as subs the number of subscriptions.
C25_ActivityStatsCountActive ==
    /\ SelectActivityStats.helps = Cardinality({h \in help : h.deleted_at = NULL})
    /\ SelectActivityStats.helps = CountActiveOver(AppUser)
    /\ SelectActivityStats.subs = Cardinality(subscription)

(* ---------------------- choosing categories in the bot ----------------- *)

\* Checkbox replies handled before the dialog is left alone.
MaxReplies == 3

\* The texts of the buttons; a message is taken as the set of button texts
\* it contains (strings.Contains), none for any other message.
btnOptionUserRoleSeeker == "btn_option_user_role_seeker"
btnOptionUserRoleVolunteer == "btn_option_user_role_volunteer"

\* The keyboard handleUserRoleReply builds: six categories, none checked.
NewCategoryKeyboard ==
    << [text |-> "Food",       category |-> "categoryFood",       checked |-> FALSE],
       [text |-> "Meds",       category |-> "categoryMeds",       checked |-> FALSE],
       [text |-> "Clothes",    category |-> "categoryClothes",    checked |-> FALSE],
       [text |-> "Apartments", category |-> "categoryApartments", checked |-> FALSE],
       [text |-> "Transport",  category |-> "categoryTransport",  checked |-> FALSE],
       [text |-> "Other",      category |-> "categoryOther",      checked |-> FALSE] >>

Messages ==
    {{}, {btnOptionUserRoleSeeker}, {btnOptionUserRoleVolunteer}, {"Food", "Meds"}}
        \cup {{NewCategoryKeyboard[i].text} : i \in DOMAIN NewCategoryKeyboard}

dialogFrame == <<help, subscription, subSeq, now, app_user, text, regions, updates, pc,
                 batch, ctxDone, upserts, uidSeq, reaper, ret>>

\* userRoleRequest: the role question is sent and a new dialog is stored.
userRoleRequest ==
    /\ dialog' = [next |-> "handleUserRoleReply", categories |-> <<>>,
                  categoryKeyboard |-> <<>>]
    /\ UNCHANGED dialogFrame

\* handleUserRoleReply: the volunteer button opens the category keyboard;
\* the seeker button and any other message leave the dialog as it is.
handleUserRoleReply(msg) ==
    /\ dialog.next = "handleUserRoleReply"
    /\ dialog' = IF msg = {btnOptionUserRoleVolunteer}
                 THEN [next |-> "handleVolunteerCategoryCheckbox", categories |-> <<>>,
                       categoryKeyboard |-> NewCategoryKeyboard]
                 ELSE dialog
    /\ UNCHANGED dialogFrame

\* invert on the key of the loop: whether the message contains the key's
\* text.  The key is the loop's copy of the slice element, so the flip of
\* checked is lost with it.
invert(k, msg) == k.text \in msg

\* handleVolunteerCategoryCheckbox: the category of the first key the
\* message contains is appended to volunteer.categories; the keyboard that
\* is stored and sent back is not changed.
handleVolunteerCategoryCheckbox(msg) ==
    /\ dialog.next = "handleVolunteerCategoryCheckbox"
    /\ Len(dialog.categories) < MaxReplies
    /\ dialog' =
         IF \E i \in DOMAIN dialog.categoryKeyboard : invert(dialog.categoryKeyboard[i], msg)
         THEN LET i == CHOOSE j \in DOMAIN dialog.categoryKeyboard :
                          /\ invert(dialog.categoryKeyboard[j], msg)
                          /\ \A k \in 1..(j - 1) : ~ invert(dialog.categoryKeyboard[k], msg)
              IN  [dialog EXCEPT !.categories =
                       Append(@, dialog.categoryKeyboard[i].category)]
         ELSE dialog
    /\ UNCHANGED dialogFrame

RoleReplyStep == \E msg \in Messages : handleUserRoleReply(msg)

CheckboxStep == \E msg \in Messages : handleVolunteerCategoryCheckbox(msg)

NextDialog == userRoleRequest \/ RoleReplyStep \/ CheckboxStep

SpecDialog == Init /\ [][NextDialog]_vars

\* C26: in the category step, volunteer.categories holds the categories
\* whose checkbox is checked, each once.
C26_CategoriesAreTheCheckedOnes ==
    dialog.next = "handleVolunteerCategoryCheckbox" =>
        /\ {dialog.categories[i] : i \in DOMAIN dialog.categories}
               = {dialog.categoryKeyboard[i].category :
                      i \in {j \in DOMAIN dialog.categoryKeyboard :
                                dialog.categoryKeyboard[j].checked}}
        /\ \A i, j \in DOMAIN dialog.categories :
               dialog.categories[i] = dialog.categories[j] => i = j

====
